---- MODULE Spec2Model ----
(***************************************************************************)
(* Model of nested_object_cleaner.py: the reference-counting fixpoint      *)
(* pruner clean_obj and the helpers it calls.                              *)
(*                                                                         *)
(* A node of the nested object is a record [k, v]:                         *)
(*   k = "dict"  v = sequence of <<key, node>> pairs (insertion order)     *)
(*   k = "list"  v = sequence of nodes                                     *)
(*   k = "str"   v = a string                                              *)
(*   k = "int"   v = an integer                                            *)
(*   k = "bool"  v = TRUE / FALSE                                          *)
(*   k = "null"  v = <<>>          (Python None, also prune's "absent")    *)
(* Text (the output of json.dumps, str.count's arguments, the dot-joined   *)
(* path) is a sequence of one-character strings.                           *)
(***************************************************************************)
EXTENDS Integers, Sequences, FiniteSets, TLC

VARIABLES obj, search_keys, clean_keys, ignore_paths,
          cleaned_obj, matches, freq_before, orphaned_values, freq_after,
          pc, call, first_result, iterations, orphaned_seen

vars == <<obj, search_keys, clean_keys, ignore_paths,
          cleaned_obj, matches, freq_before, orphaned_values, freq_after,
          pc, call, first_result, iterations, orphaned_seen>>

(***************************************************************************)
(* Node constructors                                                       *)
(***************************************************************************)
None == [k |-> "null", v |-> <<>>]

StrNode(s) == [k |-> "str", v |-> s]

IntNode(n) == [k |-> "int", v |-> n]

BoolNode(b) == [k |-> "bool", v |-> b]

ListNode(elements) == [k |-> "list", v |-> elements]

DictNode(items) == [k |-> "dict", v |-> items]

(* d = {key: value}, d = {k1: v1, k2: v2}, ... *)
Dict1(k1, v1) == DictNode(<< <<k1, v1>> >>)

Dict2(k1, v1, k2, v2) == DictNode(<< <<k1, v1>>, <<k2, v2>> >>)

isinstance(o, kind) == o.k = kind

(* Python truth value of a node: `if v:` *)
Truthy(o) ==
    CASE o.k = "dict" -> o.v # <<>>
      [] o.k = "list" -> o.v # <<>>
      [] o.k = "str"  -> o.v # ""
      [] o.k = "int"  -> o.v # 0
      [] o.k = "bool" -> o.v
      [] OTHER        -> FALSE

(***************************************************************************)
(* Text: the characters of every string the model's inputs use.            *)
(***************************************************************************)
Chars(s) ==
    CASE s = ""           -> <<>>
      [] s = "a"          -> <<"a">>
      [] s = "b"          -> <<"b">>
      [] s = "l"          -> <<"l">>
      [] s = "q"          -> <<"q">>
      [] s = "w"          -> <<"w">>
      [] s = "x"          -> <<"x">>
      [] s = "y"          -> <<"y">>
      [] s = "id"         -> <<"i", "d">>
      [] s = "name"       -> <<"n", "a", "m", "e">>
      [] s = "ref"        -> <<"r", "e", "f">>
      [] s = "refs"       -> <<"r", "e", "f", "s">>
      [] s = "sub"        -> <<"s", "u", "b">>
      [] s = "keep"       -> <<"k", "e", "e", "p">>
      [] s = "items"      -> <<"i", "t", "e", "m", "s">>
      [] s = "items.keep" -> <<"i", "t", "e", "m", "s", ".", "k", "e", "e", "p">>
      [] s = "1, 2"       -> <<"1", ",", " ", "2">>
      [] s = "1, 2]"      -> <<"1", ",", " ", "2", "]">>

RECURSIVE Digits(_)
Digits(n) == IF n < 10 THEN <<CASE n = 0 -> "0" [] n = 1 -> "1" [] n = 2 -> "2"
                                [] n = 3 -> "3" [] n = 4 -> "4" [] n = 5 -> "5"
                                [] n = 6 -> "6" [] n = 7 -> "7" [] n = 8 -> "8"
                                [] n = 9 -> "9">>
             ELSE Digits(n \div 10) \o Digits(n % 10)

RECURSIVE Escaped(_)
Escaped(t) ==
    IF t = <<>> THEN <<>>
    ELSE (IF Head(t) \in {"\"", "\\"} THEN <<"\\", Head(t)>> ELSE <<Head(t)>>)
         \o Escaped(Tail(t))

Quoted(s) == <<"\"">> \o Escaped(Chars(s)) \o <<"\"">>

(* json.dumps(o) with the default separators ", " and ": " *)
RECURSIVE dumps(_), dumps_items(_, _), dumps_elements(_, _)
dumps(o) ==
    CASE o.k = "dict" -> <<"{">> \o dumps_items(o.v, 1) \o <<"}">>
      [] o.k = "list" -> <<"[">> \o dumps_elements(o.v, 1) \o <<"]">>
      [] o.k = "str"  -> Quoted(o.v)
      [] o.k = "int"  -> IF o.v < 0 THEN <<"-">> \o Digits(0 - o.v) ELSE Digits(o.v)
      [] o.k = "bool" -> IF o.v THEN <<"t", "r", "u", "e">>
                                ELSE <<"f", "a", "l", "s", "e">>
      [] OTHER        -> <<"n", "u", "l", "l">>

dumps_items(items, i) ==
    IF i > Len(items) THEN <<>>
    ELSE (IF i > 1 THEN <<",", " ">> ELSE <<>>)
         \o Quoted(items[i][1]) \o <<":", " ">> \o dumps(items[i][2])
         \o dumps_items(items, i + 1)

dumps_elements(elements, i) ==
    IF i > Len(elements) THEN <<>>
    ELSE (IF i > 1 THEN <<",", " ">> ELSE <<>>)
         \o dumps(elements[i]) \o dumps_elements(elements, i + 1)

(* string.count(s): non-overlapping occurrences, left to right: each one *)
(* is the first occurrence that starts at or after the end of the one    *)
(* before; the empty substring occurs len(string) + 1 times.             *)
Occurrences(string, s) ==
    { i \in 1..(Len(string) - Len(s) + 1) : SubSeq(string, i, i + Len(s) - 1) = s }

RECURSIVE count_from(_, _, _)
count_from(found, n, i) ==
    LET rest == { j \in found : j >= i }
    IN  IF rest = {} THEN 0
        ELSE LET first == CHOOSE j \in rest : \A h \in rest : j <= h
             IN  1 + count_from(rest, n, first + n)

count(string, s) ==
    IF s = <<>> THEN Len(string) + 1
    ELSE count_from(Occurrences(string, s), Len(s), 1)

(* ".".join(path) *)
RECURSIVE join(_)
join(path) ==
    IF path = <<>> THEN <<>>
    ELSE IF Len(path) = 1 THEN Chars(path[1])
    ELSE Chars(path[1]) \o <<".">> \o join(Tail(path))

(***************************************************************************)
(* get_values_for_keys: every value held under one of `keys`, at any       *)
(* depth; a value found under one of `keys` is not searched itself.        *)
(***************************************************************************)
(* variant: the lists are not searched *)
RECURSIVE get_values_for_keys_dicts_only(_, _)
get_values_for_keys_dicts_only(o, keys) ==
    IF o.k = "dict"
    THEN UNION { IF o.v[i][1] \in keys
                 THEN {o.v[i][2]}
                 ELSE get_values_for_keys_dicts_only(o.v[i][2], keys) :
                 i \in DOMAIN o.v }
    ELSE {}

RECURSIVE get_values_for_keys(_, _)
get_values_for_keys(o, keys) ==
    CASE o.k = "dict" ->
           UNION { IF o.v[i][1] \in keys
                   THEN {o.v[i][2]}
                   ELSE get_values_for_keys(o.v[i][2], keys) : i \in DOMAIN o.v }
      [] o.k = "list" ->
           UNION { get_values_for_keys(o.v[i], keys) : i \in DOMAIN o.v }
      [] OTHER -> {}

(* values.add(v) raises TypeError for a dict or a list *)
Hashable(o) == o.k \notin {"dict", "list"}

(* get_substr_frequency: {s: string.count(s) for s in substrings}; *)
(* str.count raises TypeError for a substring that is no str       *)
Countable(substrings) == \A s \in substrings : s.k = "str"

get_substr_frequency(string, substrings) ==
    [s \in substrings |-> count(string, Chars(s.v))]

(* variant: f >= 1 in the place of f == 1 *)
OrphanedAtLeastOnce(freq) == { s \in DOMAIN freq : freq[s] >= 1 }

(* [k for k, f in freq_before.items() if f == 1] *)
Orphaned(freq) == { s \in DOMAIN freq : freq[s] = 1 }

RECURSIVE sum_over(_, _)
sum_over(freq, keys) ==
    IF keys = {} THEN 0
    ELSE LET key == CHOOSE key \in keys : TRUE
         IN  freq[key] + sum_over(freq, keys \ {key})

summed_frequencies(freq) == sum_over(freq, DOMAIN freq)

(***************************************************************************)
(* prune_obj and its type-specific helpers.  The result None stands for    *)
(* "do not return this object"; the callers test the result's truth value. *)
(***************************************************************************)
Ignored(ignore_paths_, path) ==
    /\ ignore_paths_ # {}
    /\ path # <<>>
    /\ \E p \in ignore_paths_ : Chars(p) = join(path)

RECURSIVE prune_obj(_, _, _, _, _)
RECURSIVE _prune_dict_loop(_, _, _, _, _, _, _)
RECURSIVE _prune_list_loop(_, _, _, _, _, _, _)

(* the body of `for k, v in dict_.items()` from entry i on *)
_prune_dict_loop(items, i, pruned, on_keys, for_values, ignore_paths_, path) ==
    IF i > Len(items) THEN DictNode(pruned)
    ELSE LET k == items[i][1]
             v == items[i][2]
         IN  IF k \in on_keys /\ v \in for_values
             THEN None
             ELSE IF Truthy(v)
             THEN LET pruned_v == prune_obj(v, on_keys, for_values, ignore_paths_,
                                            Append(path, k))
                  IN  _prune_dict_loop(items, i + 1,
                          IF Truthy(pruned_v) THEN Append(pruned, <<k, pruned_v>>)
                                              ELSE pruned,
                          on_keys, for_values, ignore_paths_, path)
             ELSE _prune_dict_loop(items, i + 1, Append(pruned, <<k, v>>),
                                   on_keys, for_values, ignore_paths_, path)

(* variant: the else branch that keeps an empty value is missing *)
_prune_dict_without_empty(dict_, on_keys, for_values, ignore_paths_, path) ==
    LET pruned == _prune_dict_loop(dict_.v, 1, <<>>, on_keys, for_values,
                                   ignore_paths_, path)
    IN  IF pruned = None THEN None
        ELSE DictNode(SelectSeq(pruned.v, LAMBDA item : Truthy(item[2])))

_prune_dict(dict_, on_keys, for_values, ignore_paths_, path) ==
    _prune_dict_loop(dict_.v, 1, <<>>, on_keys, for_values, ignore_paths_, path)

(* the body of `for element in list_` from element i on *)
_prune_list_loop(elements, i, pruned, on_keys, for_values, ignore_paths_, path) ==
    IF i > Len(elements) THEN ListNode(pruned)
    ELSE LET element == elements[i]
         IN  IF Truthy(element)
             THEN LET pruned_e == prune_obj(element, on_keys, for_values,
                                            ignore_paths_, path)
                  IN  _prune_list_loop(elements, i + 1,
                          IF Truthy(pruned_e) THEN Append(pruned, pruned_e)
                                              ELSE pruned,
                          on_keys, for_values, ignore_paths_, path)
             ELSE _prune_list_loop(elements, i + 1, Append(pruned, element),
                                   on_keys, for_values, ignore_paths_, path)

_prune_list(list_, on_keys, for_values, ignore_paths_, path) ==
    _prune_list_loop(list_.v, 1, <<>>, on_keys, for_values, ignore_paths_, path)

prune_obj(o, on_keys, for_values, ignore_paths_, path) ==
    IF Ignored(ignore_paths_, path) THEN o
    ELSE IF isinstance(o, "dict")
         THEN _prune_dict(o, on_keys, for_values, ignore_paths_, path)
    ELSE IF isinstance(o, "list")
         THEN _prune_list(o, on_keys, for_values, ignore_paths_, path)
    ELSE o

(***************************************************************************)
(* Inputs of clean_obj: a nested object and the three key / path sets.     *)
(***************************************************************************)
MaxItems == 2

MaxCalls == 2

Input(o, S, C, I) ==
    [obj |-> o, search_keys |-> S, clean_keys |-> C, ignore_paths |-> I]

SeqsUpTo(S, n) == UNION { [1..m -> S] : m \in 0..n }

(* the elements a generated list may hold *)
ItemShapes ==
    { Dict1("name", StrNode("x")),
      Dict1("name", StrNode("y")),
      Dict2("name", StrNode("x"), "ref", StrNode("y")),
      Dict2("name", StrNode("y"), "ref", StrNode("x")),
      Dict1("ref", StrNode("")),
      Dict2("name", StrNode("x"),
            "keep", Dict2("name", StrNode("y"), "sub", IntNode(0))),
      ListNode(<<Dict1("ref", StrNode("y"))>>),
      StrNode("y"),
      IntNode(0) }

(* the roots built around a generated list *)
Roots(l) ==
    { Dict1("items", ListNode(l)),
      Dict2("name", StrNode("l"), "items", ListNode(l)),
      ListNode(l) }

Generated ==
    { Input(o, S, C, I) :
        o \in UNION { Roots(l) : l \in SeqsUpTo(ItemShapes, MaxItems) },
        S \in { {"name"}, {"name", "ref"} },
        C \in { {"name"}, {"ref"} },
        I \in { {}, {"items"}, {"items.keep"} } }

(* the example of the documentation: items a (name and ref) and b, refs b *)
ExampleObj ==
    Dict2("items", ListNode(<< Dict2("name", StrNode("a"), "ref", StrNode("a")),
                               Dict1("name", StrNode("b")) >>),
          "refs", ListNode(<< StrNode("b") >>))

(* string values that hold JSON punctuation *)
JunctionObj ==
    DictNode(<< <<"id", StrNode("1, 2")>>,
                <<"sub", Dict1("id", StrNode("1, 2]"))>>,
                <<"items", ListNode(<< IntNode(1),
                                       Dict2("name", StrNode("q"), "ref", StrNode("w")),
                                       IntNode(2) >>)>>,
                <<"keep", Dict1("name", StrNode("w"))>> >>)

(* every kind of empty value, as list elements and as dict values *)
FalsyObj ==
    Dict2("items", ListNode(<< IntNode(0), StrNode(""), None, BoolNode(FALSE),
                               DictNode(<<>>), ListNode(<<>>),
                               Dict2("name", StrNode("x"),
                                     "sub", Dict1("id", IntNode(0))) >>),
          "keep", DictNode(<< <<"id", IntNode(0)>>, <<"ref", StrNode("")>>,
                              <<"sub", DictNode(<<>>)>>, <<"refs", ListNode(<<>>)>>,
                              <<"items", ListNode(<<BoolNode(TRUE), IntNode(12)>>)>> >>))

Scenarios ==
    { Input(ExampleObj, {"name"}, {"ref"}, {}),
      Input(ExampleObj, {"name"}, {"ref"}, {"items"}),
      Input(ExampleObj, {"name"}, {"name"}, {}),
      Input(JunctionObj, {"id", "name"}, {"name"}, {}),
      Input(FalsyObj, {"name"}, {"name"}, {}),
      Input(FalsyObj, {"name", "ref"}, {"name", "ref"}, {"keep"}),
      Input(Dict2("name", StrNode("x"), "ref", StrNode("")), {"name"}, {"ref"}, {}),
      Input(Dict1("items", ListNode(<<Dict1("name", IntNode(1))>>)),
            {"name"}, {"name"}, {}),
      Input(Dict1("items", ListNode(<<Dict1("name", BoolNode(TRUE))>>)),
            {"name"}, {"name"}, {}),
      Input(Dict1("name", Dict1("id", StrNode("x"))), {"name"}, {"name"}, {}),
      Input(Dict1("name", StrNode("x")), {"name"}, {"name"}, {}) }

Inputs == Generated \cup Scenarios

NoFreq == [s \in {} |-> 0]

(***************************************************************************)
(* clean_obj, one step per statement of its body.  pc is the position:     *)
(*   "enter"   before the deep copy and the collection of the candidates   *)
(*   "scan"    at the top of the loop body, before freq_before             *)
(*   "prune"   orphaned_values is not empty, before prune_obj              *)
(*   "recount" before freq_after and the comparison of the sums            *)
(*   "done"    clean_obj has returned cleaned_obj                          *)
(*   "error"   clean_obj has raised TypeError                              *)
(* call counts the calls: call k + 1 is given the result of call k.        *)
(* iterations counts the passes through the loop body of the current call, *)
(* orphaned_seen collects the orphaned_values of its passes.               *)
(***************************************************************************)
Init ==
    \E in \in Inputs :
        /\ obj = in.obj
        /\ search_keys = in.search_keys
        /\ clean_keys = in.clean_keys
        /\ ignore_paths = in.ignore_paths
        /\ cleaned_obj = None
        /\ matches = {}
        /\ freq_before = NoFreq
        /\ orphaned_values = {}
        /\ freq_after = NoFreq
        /\ pc = "enter"
        /\ call = 1
        /\ first_result = None
        /\ iterations = 0
        /\ orphaned_seen = {}

(* cleaned_obj = copy.deepcopy(obj); matches = get_values_for_keys(...) *)
Enter ==
    /\ pc = "enter"
    /\ LET values == get_values_for_keys(obj, search_keys)
       IN  IF \A v \in values : Hashable(v)
           THEN /\ matches' = values
                /\ pc' = "scan"
           ELSE /\ matches' = {}
                /\ pc' = "error"
    /\ cleaned_obj' = obj
    /\ UNCHANGED <<obj, search_keys, clean_keys, ignore_paths, freq_before,
                   orphaned_values, freq_after, call, first_result, iterations,
                   orphaned_seen>>

(* freq_before = ...; orphaned_values := [k for k, f in ... if f == 1] *)
Scan ==
    /\ pc = "scan"
    /\ iterations' = iterations + 1
    /\ IF Countable(matches)
       THEN /\ freq_before' = get_substr_frequency(dumps(cleaned_obj), matches)
            /\ orphaned_values' = Orphaned(freq_before')
            /\ orphaned_seen' = orphaned_seen \cup orphaned_values'
            /\ pc' = IF orphaned_values' # {} THEN "prune" ELSE "recount"
       ELSE /\ pc' = "error"
            /\ UNCHANGED <<freq_before, orphaned_values, orphaned_seen>>
    /\ UNCHANGED <<obj, search_keys, clean_keys, ignore_paths, cleaned_obj,
                   matches, freq_after, call, first_result>>

(* cleaned_obj = prune_obj(cleaned_obj, clean_keys, orphaned_values, ...) *)
Prune ==
    /\ pc = "prune"
    /\ cleaned_obj' = prune_obj(cleaned_obj, clean_keys, orphaned_values,
                                ignore_paths, <<>>)
    /\ pc' = "recount"
    /\ UNCHANGED <<obj, search_keys, clean_keys, ignore_paths, matches,
                   freq_before, orphaned_values, freq_after, call, first_result,
                   iterations, orphaned_seen>>

(* freq_after = ...; break when the sums are equal, else loop *)
Recount ==
    /\ pc = "recount"
    /\ freq_after' = get_substr_frequency(dumps(cleaned_obj), matches)
    /\ pc' = IF summed_frequencies(freq_after') = summed_frequencies(freq_before)
             THEN "done" ELSE "scan"
    /\ UNCHANGED <<obj, search_keys, clean_keys, ignore_paths, cleaned_obj,
                   matches, freq_before, orphaned_values, call, first_result,
                   iterations, orphaned_seen>>

(* the caller passes the result to clean_obj again, with the same key sets *)
Again ==
    /\ pc = "done"
    /\ call < MaxCalls
    /\ obj' = cleaned_obj
    /\ first_result' = cleaned_obj
    /\ call' = call + 1
    /\ pc' = "enter"
    /\ cleaned_obj' = None
    /\ matches' = {}
    /\ freq_before' = NoFreq
    /\ orphaned_values' = {}
    /\ freq_after' = NoFreq
    /\ iterations' = 0
    /\ orphaned_seen' = {}
    /\ UNCHANGED <<search_keys, clean_keys, ignore_paths>>

Next == Enter \/ Scan \/ Prune \/ Recount \/ Again

Spec == Init /\ [][Next]_vars

(***************************************************************************)
(* Vocabulary of the properties: a walk over the nodes of a nested object. *)
(* Each node gives one record: the node, its key path (a list does not     *)
(* extend the path), anc: a dict strictly above it holds one of vals under *)
(* one of keys, par: the nearest dict above it does, ign: it lies at or    *)
(* below one of the ignored paths.  The first record is the root.          *)
(***************************************************************************)
Holds(o, keys, vals) ==
    /\ o.k = "dict"
    /\ \E i \in DOMAIN o.v : o.v[i][1] \in keys /\ o.v[i][2] \in vals

RECURSIVE Walk(_, _, _, _, _, _, _, _), WalkFrom(_, _, _, _, _, _, _, _, _)
Walk(o, keys, vals, ignored, path, anc, par, ign) ==
    <<[node |-> o, path |-> path, anc |-> anc, par |-> par, ign |-> ign]>>
    \o (IF o.k \in {"dict", "list"}
        THEN WalkFrom(o, 1, keys, vals, ignored, path, anc, par, ign)
        ELSE <<>>)

WalkFrom(o, i, keys, vals, ignored, path, anc, par, ign) ==
    IF i > Len(o.v) THEN <<>>
    ELSE (IF o.k = "dict"
          THEN LET below == Append(path, o.v[i][1])
               IN  Walk(o.v[i][2], keys, vals, ignored, below,
                        anc \/ Holds(o, keys, vals), Holds(o, keys, vals),
                        ign \/ Ignored(ignored, below))
          ELSE Walk(o.v[i], keys, vals, ignored, path, anc, par, ign))
         \o WalkFrom(o, i + 1, keys, vals, ignored, path, anc, par, ign)

NodesOf(o, keys, vals, ignored) ==
    Walk(o, keys, vals, ignored, <<>>, FALSE, FALSE, FALSE)

HowMany(records, Test(_)) ==
    Cardinality({ i \in DOMAIN records : Test(records[i]) })

(* the dicts anywhere in o that hold v under one of keys *)
Holders(o, keys, v) ==
    HowMany(NodesOf(o, keys, {v}, {}), LAMBDA r : Holds(r.node, keys, {v}))

(* those of them that neither hold one of vals under one of keys nor lie *)
(* inside a dict that does                                               *)
SafeHolders(o, keys, v, vals) ==
    HowMany(NodesOf(o, keys, vals, {}),
            LAMBDA r : Holds(r.node, keys, {v}) /\ ~r.anc
                       /\ ~Holds(r.node, keys, vals))

(* the dicts and lists of o; those outside every dict that holds one of vals *)
Containers(o) ==
    HowMany(NodesOf(o, {}, {}, {}), LAMBDA r : r.node.k \in {"dict", "list"})

SafeContainers(o, keys, vals) ==
    HowMany(NodesOf(o, keys, vals, {}),
            LAMBDA r : r.node.k \in {"dict", "list"} /\ ~r.anc
                       /\ ~Holds(r.node, keys, vals))

(* the empty values that are a dict value or a list element, in document *)
(* order, each with its key path                                         *)
Leaf(r) == [path |-> r.path, val |-> r.node]

LeavesOf(records, Test(_)) ==
    LET kept == SelectSeq(records, LAMBDA r : ~Truthy(r.node) /\ Test(r))
    IN  [i \in DOMAIN kept |-> Leaf(kept[i])]

FalsyLeaves(o) ==
    LeavesOf(Tail(NodesOf(o, {}, {}, {})), LAMBDA r : TRUE)

(* ... whose nearest containing dict holds none of vals under one of keys *)
FalsyLeavesDirect(o, keys, vals) ==
    LeavesOf(Tail(NodesOf(o, keys, vals, {})), LAMBDA r : ~r.par)

(* ... no dict around which, at any depth, holds one of vals under keys *)
FalsyLeavesClear(o, keys, vals) ==
    LeavesOf(Tail(NodesOf(o, keys, vals, {})), LAMBDA r : ~r.anc)

RECURSIVE IsSubseq(_, _)
IsSubseq(s, t) ==
    IF s = <<>> THEN TRUE
    ELSE IF t = <<>> THEN FALSE
    ELSE IF Head(s) = Head(t) THEN IsSubseq(Tail(s), Tail(t))
    ELSE IsSubseq(s, Tail(t))

(* the subtrees of o whose dot-joined key path is p *)
RECURSIVE SubtreesAt(_, _, _), SubtreesFrom(_, _, _, _)
SubtreesAt(o, p, path) ==
    IF path # <<>> /\ join(path) = Chars(p) THEN <<o>>
    ELSE IF o.k \in {"dict", "list"} THEN SubtreesFrom(o, 1, p, path)
    ELSE <<>>

SubtreesFrom(o, i, p, path) ==
    IF i > Len(o.v) THEN <<>>
    ELSE (IF o.k = "dict" THEN SubtreesAt(o.v[i][2], p, Append(path, o.v[i][1]))
                          ELSE SubtreesAt(o.v[i], p, path))
         \o SubtreesFrom(o, i + 1, p, path)

TotalIn(o) == summed_frequencies(get_substr_frequency(dumps(o), matches))

Returned == pc = "done"

(***************************************************************************)
(* C1  Single-reference removal.                                           *)
(***************************************************************************)
(* C1: when the call returns, no object anywhere in the returned tree      *)
(* holds, under a clean key, a candidate that occurred exactly once in the *)
(* serialized working tree at the top of a pass, nor one that the removals *)
(* of the call have left with exactly one occurrence in the returned tree  *)
(* (the cascade: such a value is pruned in a later pass of the same call). *)
C1_SingleReferenceRemoval ==
    Returned =>
        \A v \in matches :
            (v \in orphaned_seen \/ freq_after[v] = 1) =>
                Holders(cleaned_obj, clean_keys, v) = 0

(***************************************************************************)
(* C2  No-op on multiply-referenced values.                                *)
(***************************************************************************)
(* C2 as stated: a pass removes no object that holds, under a clean key, a *)
(* candidate that occurs two or more times at the top of the pass.         *)
C2_NoRemovalOfMultiplyReferenced ==
    [][pc = "prune" =>
         \A v \in matches :
             freq_before[v] >= 2 =>
                 Holders(cleaned_obj', clean_keys, v)
                     = Holders(cleaned_obj, clean_keys, v)]_vars

(* C2 amended: a pass removes an object that holds, under a clean key, a   *)
(* candidate that occurs two or more times at the top of the pass only if  *)
(* that object, or an object around it, holds under a clean key a          *)
(* candidate that occurs exactly once.                                     *)
C2_MultiplyReferencedRemovedOnlyWithOrphan ==
    [][pc = "prune" =>
         \A v \in matches :
             freq_before[v] >= 2 =>
                 Holders(cleaned_obj', clean_keys, v)
                     >= SafeHolders(cleaned_obj, clean_keys, v,
                                    { u \in matches : freq_before[u] = 1 })]_vars

(* after a pass that removed the object of an orphaned value, an object    *)
(* that holds a multiply-referenced candidate under a clean key is there   *)
C2_Witness ==
    /\ pc = "recount"
    /\ \E u \in orphaned_values :
           /\ Holders(obj, clean_keys, u) > 0
           /\ count(dumps(cleaned_obj), Chars(u.v)) = 0
    /\ \E v \in matches :
           /\ freq_before[v] >= 2
           /\ Holders(cleaned_obj, clean_keys, v) > 0

(***************************************************************************)
(* C3  Idempotence.                                                        *)
(***************************************************************************)
(* C3: clean_obj applied to its own result, with the same key sets,        *)
(* returns that result.                                                    *)
C3_Idempotence ==
    (Returned /\ call >= 2) => cleaned_obj = first_result

(***************************************************************************)
(* C4  Ignore-path invariance.                                             *)
(***************************************************************************)
(* C4: the subtrees at every ignored path are in the returned tree what    *)
(* they are in the input.                                                  *)
C4_IgnorePathInvariance ==
    Returned =>
        \A p \in ignore_paths :
            SubtreesAt(cleaned_obj, p, <<>>) = SubtreesAt(obj, p, <<>>)

(***************************************************************************)
(* C5  Falsy preservation.                                                 *)
(***************************************************************************)
(* C5 as stated: every empty value of the input is in the returned tree,   *)
(* under its key path and in order, unless the dict that directly contains *)
(* it held an orphaned value under a clean key.                            *)
C5_FalsyPreservation ==
    Returned =>
        IsSubseq(FalsyLeavesDirect(obj, clean_keys, orphaned_seen),
                 FalsyLeaves(cleaned_obj))

(* C5 amended: every empty value of the input is in the returned tree,     *)
(* under its key path and in order, unless a dict that contains it,        *)
(* directly or at any depth, held an orphaned value under a clean key.     *)
C5_FalsyPreservationOutsideDiscarded ==
    Returned =>
        IsSubseq(FalsyLeavesClear(obj, clean_keys, orphaned_seen),
                 FalsyLeaves(cleaned_obj))

(* a call that discarded an object with an empty value in it and returned  *)
(* a tree that still holds empty values                                    *)
C5_Witness ==
    /\ Returned
    /\ orphaned_seen # {}
    /\ FalsyLeaves(cleaned_obj) # <<>>
    /\ Len(FalsyLeaves(cleaned_obj)) < Len(FalsyLeaves(obj))

(***************************************************************************)
(* C6  The worked example.                                                 *)
(***************************************************************************)
IsExample ==
    /\ obj = ExampleObj
    /\ search_keys = {"name"}
    /\ clean_keys = {"ref"}
    /\ ignore_paths = {}
    /\ call = 1

ExampleResult ==
    Dict2("items", ListNode(<< Dict1("name", StrNode("b")) >>),
          "refs", ListNode(<< StrNode("b") >>))

(* C6 as stated: on the example the candidates are a and b, a is orphaned, *)
(* b is not, and the first item is pruned.                                 *)
C6_Example ==
    (IsExample /\ Returned) =>
        /\ matches = {StrNode("a"), StrNode("b")}
        /\ orphaned_seen = {StrNode("a")}
        /\ cleaned_obj = ExampleResult

(* C6 amended: on the example the candidates are a and b, neither is       *)
(* orphaned (a occurs four times in the serialized tree, b twice), nothing *)
(* is pruned and the input is returned after one pass.                     *)
C6_ExampleUnchanged ==
    (IsExample /\ Returned) =>
        /\ matches = {StrNode("a"), StrNode("b")}
        /\ freq_before = (StrNode("a") :> 4) @@ (StrNode("b") :> 2)
        /\ orphaned_seen = {}
        /\ iterations = 1
        /\ cleaned_obj = obj

C6_Witness == IsExample /\ Returned

(***************************************************************************)
(* C7  Bounded termination.                                                *)
(***************************************************************************)
(* C7: no call makes more passes through the loop than there are           *)
(* candidates (each pass counts, so a call that did not return would pass  *)
(* the bound), and a pass whose pruning removes something lowers the total *)
(* occurrence count.                                                       *)
C7_BoundedTermination ==
    /\ [](iterations <= Cardinality(matches))
    /\ [][(pc = "prune" /\ cleaned_obj' # cleaned_obj) =>
             TotalIn(cleaned_obj') < summed_frequencies(freq_before)]_vars

(***************************************************************************)
(* C8  Occurrence counting.                                                *)
(***************************************************************************)
(* C8: counting never raises for scalar candidates, and the count of a     *)
(* candidate is the number of occurrences of its serialized form (quoted   *)
(* for a string) in the serialized tree.                                   *)
C8_CountsSerializedForm ==
    /\ ~(pc = "error" /\ iterations > 0)
    /\ Returned =>
           /\ DOMAIN freq_after = matches
           /\ \A s \in matches :
                  freq_after[s] = count(dumps(cleaned_obj), dumps(s))

(***************************************************************************)
(* C9  Result kind.                                                        *)
(***************************************************************************)
(* C9: the returned node is of the kind of the input root. *)
C9_ResultKind ==
    Returned => cleaned_obj.k = obj.k

(***************************************************************************)
(* C10  Absent versus empty.                                               *)
(***************************************************************************)
(* C10: a pass drops a dict or a list only when it is a dict that holds an *)
(* orphaned value under a clean key, or lies inside such a dict: a dict or *)
(* list that pruning empties stays.                                        *)
C10_EmptiedContainersStay ==
    [][pc = "prune" =>
         Containers(cleaned_obj')
             >= SafeContainers(cleaned_obj, clean_keys, orphaned_values)]_vars

====
